---- MODULE Spec2Model ----
(***************************************************************************)
(* Model of the hyper-stack-builder image build: main (the build           *)
(* orchestrator), executeProvisioningScripts / executeScripts / deployFiles *)
(* (the provisioning pipeline), the HyperstackClient calls and the ssh      *)
(* Client calls they make.  One action per blocking remote call of main's   *)
(* single thread of control; the provider's and the remote host's answers   *)
(* are the inputs, drawn with \E.                                           *)
(***************************************************************************)
EXTENDS Integers, Sequences, FiniteSets, TLC

\* ------------------------------------------------------------------ bounds
\* Longest provisioningScripts list and longest fileDeployments list tried.
MaxScripts == 2
MaxFiles == 2
\* The clock (epoch seconds) starts at StartClock and advances at most
\* MaxTicks seconds while two builds of one BuildSpec run.
\* Most provisioning steps (scripts plus deployments) in the builds followed
\* to their end under fairness.
MaxLiveSteps == 1
StartClock == 9
\* Most method calls a caller makes on one ssh Client.
MaxCalls == 3
MaxTicks == 2

\* ------------------------------------------------------- program constants
\* WaitForVMReady: for i := 0; i < 60; i++
VMPollCap == 60
\* WaitForSnapshotReady: for i := 0; i < 120; i++
SnapshotPollCap == 120
\* Client.Connect: for attempt := 0; attempt < 30; attempt++
ConnectCap == 30

\* ------------------------------------------------------------------- paths
\* A path is the sequence of its components; filepath.Join, Dir and Base.
Join(dir, p) == dir \o p
Dir(p) == SubSeq(p, 1, Len(p) - 1)
Base(p) == p[Len(p)]

scriptDir == <<"..", "..", "scripts">>
filesDir == <<"..", "..", "files">>
remoteScriptDir == <<"tmp", "provisioning-scripts">>

\* The lists tried are the prefixes of these two declared lists (the
\* repository declares three scripts and one deployment).
DeclaredScripts == <<"s1.sh", "s2.sh", "s3.sh", "s4.sh">>
DeclaredDeployments ==
    << [LocalPath |-> <<"f1">>, RemotePath |-> <<"etc", "containerd", "f1">>],
       [LocalPath |-> <<"f2">>, RemotePath |-> <<"etc", "containerd", "f2">>],
       [LocalPath |-> <<"f3">>, RemotePath |-> <<"opt", "f3">>],
       [LocalPath |-> <<"f4">>, RemotePath |-> <<"opt", "f4">>] >>

Min(a, b) == IF a < b THEN a ELSE b
ScriptLists ==
    { SubSeq(DeclaredScripts, 1, n) : n \in 0..Min(MaxScripts, Len(DeclaredScripts)) }
FileLists ==
    { SubSeq(DeclaredDeployments, 1, n) : n \in 0..Min(MaxFiles, Len(DeclaredDeployments)) }

\* ------------------------------------------------------------ HTTP answers
\* What makeRequest can hand back: a transport error, or a response with a
\* status code and a body.  A body is either not JSON at all or a JSON object
\* whose "status" member is true, false, a number, or missing, plus the
\* payload member (instances / instance / snapshot / image).
HTTPCodes == {200, 201, 204, 500}
Flags == {"true", "false", "number", "absent"}

Responses(Payloads, zero) ==
    { [transport |-> FALSE, code |-> 0, json |-> FALSE, flag |-> "absent", data |-> zero] }
    \cup { [transport |-> TRUE, code |-> c, json |-> FALSE, flag |-> "absent", data |-> zero]
           : c \in HTTPCodes }
    \cup [transport : {TRUE}, code : HTTPCodes, json : {TRUE}, flag : Flags, data : Payloads]

\* The provider answered with its success envelope: HTTP success status and
\* "status": true.
WellFormedSuccess(resp) ==
    resp.transport /\ resp.code \in {200, 201} /\ resp.json /\ resp.flag = "true"

\* The call failed on the wire or the provider reported a failure: transport
\* error, HTTP failure status, or "status": false.
ReportedFailure(resp) ==
    \/ ~resp.transport
    \/ resp.code \notin {200, 201, 204}
    \/ (resp.json /\ resp.flag = "false")

\* Payloads.
ZeroVM == [ID |-> 0, Status |-> "", FloatingIP |-> "", FloatingIPStatus |-> ""]
VMStates ==
    [ID : {1}, Status : {"ACTIVE", "BUILD"}, FloatingIP : {"", "203.0.113.5"},
     FloatingIPStatus : {"ATTACHED", "ATTACHING"}] \cup {ZeroVM}
InstanceLists == { <<>>, <<1>>, <<1, 2>> }
ZeroSnapshot == [ID |-> 0, Status |-> ""]
Snapshots == [ID : {5}, Status : {"CREATING", "SUCCESS"}] \cup {ZeroSnapshot}
ZeroImage == [ID |-> 0]
Images == {[ID |-> 9], ZeroImage}

\* ------------------------------------------------------------------ errors
\* An error value: its message, the path or name the message carries
\* (<<>> when it carries none) and the message of the error it wraps.
NoErr == [msg |-> "", arg |-> <<>>, cause |-> ""]
Err(m) == [msg |-> m, arg |-> <<>>, cause |-> ""]
ErrAt(m, a, c) == [msg |-> m, arg |-> a, cause |-> c]

\* ---------------------------------------------------- HyperstackClient
\* parseAPIResponse: non-200/201 => error; body unreadable as the
\* {status bool, message} wrapper => error; status false => error.
parseAPIResponse(resp) ==
    IF resp.code \notin {200, 201} THEN Err("API request failed")
    ELSE IF ~resp.json \/ resp.flag = "number" THEN Err("failed to parse API response wrapper")
    ELSE IF resp.flag # "true" THEN Err("API returned error")
    ELSE NoErr

\* A call that is makeRequest followed by parseAPIResponse.
RequestAndParse(resp, wrap) ==
    IF ~resp.transport THEN Err(wrap) ELSE parseAPIResponse(resp)

CreateVM(resp) == RequestAndParse(resp, "failed to create VM")
GetVMDetailsMutantIgnoresError(resp) == NoErr

GetVMDetails(resp) == RequestAndParse(resp, "failed to get VM details")

CreateImageFromSnapshot(resp) == RequestAndParse(resp, "failed to create image")

\* WaitForVMReady's readiness test.
IsVMReadyMutantNoAttach(vm) ==
    vm.Status = "ACTIVE" /\ vm.FloatingIP # ""

IsVMReady(vm) ==
    vm.Status = "ACTIVE" /\ vm.FloatingIP # "" /\ vm.FloatingIPStatus = "ATTACHED"

\* One iteration's request in WaitForVMReady (the error it returns, if any).
VMPollErr(resp) ==
    IF ~resp.transport THEN Err("transport") ELSE parseAPIResponse(resp)

\* CreateSnapshot checks the status code itself and decodes the body into
\* SnapshotCreateResponse (Status bool): the flag's value is not looked at.
CreateSnapshot(resp) ==
    IF ~resp.transport THEN Err("failed to create snapshot")
    ELSE IF resp.code \notin {200, 201} THEN Err("failed to create snapshot: status")
    ELSE IF ~resp.json \/ resp.flag = "number" THEN Err("failed to decode snapshot response")
    ELSE NoErr

\* One iteration's request in WaitForSnapshotReady: the status code is not
\* looked at; the body is decoded into SnapshotDetailResponse, whose Status
\* member is an int, so a JSON true/false there is a decoding error.
SnapshotPollErr(resp) ==
    IF ~resp.transport THEN Err("transport")
    ELSE IF ~resp.json \/ resp.flag \in {"true", "false"} THEN Err("decode")
    ELSE NoErr

\* WaitForSnapshotReady's readiness test (line 212).
IsSnapshotReadyMutantAnyStatus(snapshot) == snapshot.Status # ""

IsSnapshotReady(snapshot) == snapshot.Status = "SUCCESS"

\* DeleteVM: any status but 204 and 200 is an error; the body is not read.
DeleteVM(resp) ==
    IF ~resp.transport THEN Err("transport")
    ELSE IF resp.code \notin {204, 200} THEN Err("failed to delete VM")
    ELSE NoErr

\* ------------------------------------------------------------- the state
VARIABLES
    pc,         \* main's position: the call it is about to make
    verdict,    \* "running", "Complete" (exit 0) or "Failed" (log.Fatal, exit 1)
    err,        \* the error being returned / logged by log.Fatalf
    scripts,    \* provisioningScripts
    files,      \* fileDeployments
    vm,         \* vm.ID of vmResp.Instances[0] (0: none yet)
    vmIP,       \* WaitForVMReady's result
    snapshot,   \* snapshot.ID (-1: none yet)
    image,      \* image.ID (-1: none yet)
    i,          \* loop counter of the readiness loop in progress (0 once it returned ready)
    attempt,    \* Client.Connect's loop counter (0 once it returned nil)
    k,          \* index of the script / deployment being processed
    client,     \* ssh Client.client: "nil", "open" or "closed"
    deleteErr,  \* what DeleteVM returned
    trace,      \* the remote operations issued so far, in order
    lastPoll,   \* the latest readiness poll: what came back and what the loop did
    pollsOk,    \* every poll of the loop in progress came back as a success envelope
    fault,      \* the first stage in which a call failed or was reported failed
    allOk,      \* every call so far succeeded (remote calls and local file reads)
    failedStep, \* number of the provisioning step whose failure is in err (0: none)
    missing,    \* number of the step whose local source os.Stat found missing (0: none)
    dialErr,    \* Client.Connect's local err: what the latest ssh.Dial returned ("": nil)
    lastDial,   \* the latest ssh.Dial attempt's result as the remote end gave it
    lastCall,   \* the latest provider call (or the scratch removal): what came back
                \* and whether the caller got an error
    openBodies, \* how many HTTP responses WaitForSnapshotReady holds with the Body
                \* not yet closed
    \* Two runs of main from one config file (the names they send):
    now,        \* time.Now().Unix()
    loaded,     \* the Config as config.Load returned it to both runs
    cfg,        \* each run's *cfg
    originalVMName, \* each run's originalVMName
    npc,        \* each run's position: the name it is about to build
    sent,       \* the names and labels each run has sent to the provider
    stamped,    \* the clock readings each run used
    \* A caller using the ssh Client's methods in any order:
    calls,      \* how many methods it has called
    connected,  \* a Dial of this Client has succeeded at some time
    scp,        \* the CopyFile in progress: its writer goroutine and its session
    \* config.Save and config.Load on a config file:
    stored,     \* the file's JSON object
    config,     \* the types.Config in memory
    saved       \* the Config that Save last wrote

vars == <<pc, verdict, err, scripts, files, vm, vmIP, snapshot, image, i, attempt,
          k, client, deleteErr, trace, lastPoll, pollsOk, fault, allOk, failedStep,
          missing, dialErr, lastDial, lastCall, openBodies,
          now, loaded, cfg, originalVMName, npc, sent, stamped,
          calls, connected, scp, stored, config, saved>>

nameVars == <<now, loaded, cfg, originalVMName, npc, sent, stamped>>
sessionVars == <<calls, connected, scp>>
configVars == <<stored, config, saved>>
buildVars == <<pc, verdict, err, scripts, files, vm, vmIP, snapshot, image, i, attempt,
               k, client, deleteErr, trace, lastPoll, pollsOk, fault, allOk, failedStep,
               missing, dialErr, lastDial, lastCall, openBodies>>

\* Steps are numbered through both lists: scripts first, then deployments.
ScriptStep(n) == n
FileStep(n) == Len(scripts) + n
NSteps == Len(scripts) + Len(files)

\* ------------------------------------------------------------ the trace
Op(op, cmd, src, dst, id, step) ==
    [op |-> op, cmd |-> cmd, src |-> src, dst |-> dst, id |-> id, step |-> step]
ClientOp(op, id) == Op(op, "", <<>>, <<>>, id, 0)
RunOp(cmd, src, dst, step) == Op("run", cmd, src, dst, 0, step)
UploadOp(src, dst, step) == Op("upload", "scp -t", src, dst, 0, step)

\* Every operation issued is appended; the repeats of one readiness loop or of
\* the connect loop are kept as a single entry (their number is i / attempt).
Logged(e) == Append(trace, e)
LoggedRepeat(e) ==
    IF Len(trace) > 0 /\ trace[Len(trace)] = e THEN trace ELSE Append(trace, e)

NoPoll == [of |-> "none", seen |-> FALSE, obs |-> ZeroVM, status |-> "",
           wellFormed |-> FALSE, reportedFailure |-> FALSE, outcome |-> ""]

NoCall == [op |-> "none", flagFalse |-> FALSE, httpFailure |-> FALSE, errored |-> FALSE]
\* A provider call's record: the envelope's flag was false, the HTTP status was
\* a failure status, the client call returned an error.
Called(op, resp, e) ==
    [op |-> op,
     flagFalse |-> (resp.transport /\ resp.json /\ resp.flag = "false"),
     httpFailure |-> (resp.transport /\ resp.code \notin {200, 201, 204}),
     errored |-> (e # NoErr)]

\* A remote command's or upload's record.
Ran(cmd, e) == [NoCall EXCEPT !.op = cmd, !.errored = (e # NoErr)]

\* The stage a failure is charged to, the first one sticking.
Charged(stage, failed) == IF fault = "none" /\ failed THEN stage ELSE fault

\* ------------------------------------------------------------------ names
\* A string is the sequence of its characters.  fmt.Sprintf's %d.
Digits == <<"0", "1", "2", "3", "4", "5", "6", "7", "8", "9">>
RECURSIVE Decimal(_)
Decimal(n) ==
    IF n < 10 THEN <<Digits[n + 1]>>
    ELSE Decimal(n \div 10) \o <<Digits[(n % 10) + 1]>>

\* main, line 214: fmt.Sprintf("%s-%d", cfg.VMName, time.Now().Unix())
InstanceName(name, t) == name \o <<"-">> \o Decimal(t)
\* main, line 251: fmt.Sprintf("%s-snapshot-%d", cfg.VMName, time.Now().Unix())
SnapshotName(name, t) ==
    name \o <<"-", "s", "n", "a", "p", "s", "h", "o", "t", "-">> \o Decimal(t)
\* main, line 265: fmt.Sprintf("%s_%s", cfg.ImageName, cfg.ImageVersion)
ImageName(name, version) == name \o <<"_">> \o version

\* main, lines 272-279: the labels appended to every image.
FixedLabels ==
    <<"kubernetes.io/os=linux", "kubernetes.io/arch=amd64", "nvidia.com/gpu=true",
      "nvidia.com/cuda=true", "container.runtime=docker", "image.type=kubernetes-node">>

\* main, lines 269-279: a fresh slice holding the tags, then the fixed labels.
ImageLabelsMutantFixedOnly(tags) == FixedLabels

ImageLabels(tags) == tags \o FixedLabels

\* main, line 223: cfg.VMName = originalVMName
RestoredVMNameMutantKeepsStamp(original, current) == current

RestoredVMName(original, current) == original

\* The configs tried (types.Config's VMName, ImageName, ImageVersion, Tags).
BuildSpecs ==
    [VMName : {<<"v", "m">>, <<"v", "m", "-", "9">>},
     ImageName : {<<"i", "m", "g">>},
     ImageVersion : {<<"1">>, <<"1", ".", "2">>},
     Tags : {<<>>, <<"team=ml">>, <<"team=ml", "nvidia.com/gpu=true">>}]

Builds == {"a", "b"}
NothingSent == [instance |-> <<>>, snapshot |-> <<>>, image |-> <<>>, labels |-> <<>>]
NotStamped == [instance |-> 0, snapshot |-> 0]

\* The CopyFile in progress: where its writer goroutine and its session.Run
\* are, the Session's started and stdinpipe members, whether the session's
\* side of the channel has sent EOF, what the remote scp -t has received, and
\* whether the writer goroutine panicked.
NoCopy == [writer |-> "none", run |-> "none", started |-> FALSE, stdinpipe |-> FALSE,
           eof |-> FALSE, received |-> <<>>, panicked |-> FALSE]

\* No caller besides main's pipeline uses the Client.
SessionIdle ==
    /\ calls = 0
    /\ connected = FALSE
    /\ scp = NoCopy

\* A JSON member of the config file: missing, null, a string, an array of
\* strings, or a number.
Member(kind, val) == [kind |-> kind, val |-> val]
NoMember == Member("missing", <<>>)
\* A Go []string: nil, or a slice with elements.
NilSlice == [isNil |-> TRUE, elems |-> <<>>]
Slice(elems) == [isNil |-> FALSE, elems |-> elems]
ZeroConfig == [FlavorName |-> "", BaseImageName |-> "", VMName |-> "", Tags |-> NilSlice]
\* The config file: whether it exists, and the members of its JSON object.
NoFile == [exists |-> FALSE, FlavorName |-> NoMember, BaseImageName |-> NoMember,
           VMName |-> NoMember, Tags |-> NoMember]

\* No config file is being written or read.
ConfigIdle ==
    /\ stored = NoFile
    /\ config = ZeroConfig
    /\ saved = ZeroConfig

\* No second run is going on: the build modelled by Spec sends its names as
\* NamingSpec describes them.
NamingIdle ==
    /\ now = StartClock
    /\ loaded = CHOOSE c \in BuildSpecs : c.Tags = <<>>
    /\ cfg = [b \in Builds |-> loaded]
    /\ originalVMName = [b \in Builds |-> <<>>]
    /\ npc = [b \in Builds |-> "exit"]
    /\ sent = [b \in Builds |-> NothingSent]
    /\ stamped = [b \in Builds |-> NotStamped]

Init ==
    /\ NamingIdle
    /\ SessionIdle
    /\ ConfigIdle
    /\ pc = "CreateVM"
    /\ verdict = "running"
    /\ err = NoErr
    /\ scripts \in ScriptLists
    /\ files \in FileLists
    /\ vm = 0
    /\ vmIP = ""
    /\ snapshot = -1
    /\ image = -1
    /\ i = 0
    /\ attempt = 0
    /\ k = 0
    /\ client = "nil"
    /\ deleteErr = NoErr
    /\ trace = <<>>
    /\ lastPoll = NoPoll
    /\ pollsOk = TRUE
    /\ fault = "none"
    /\ allOk = TRUE
    /\ failedStep = 0
    /\ missing = 0
    /\ dialErr = ""
    /\ lastDial = ""
    /\ lastCall = NoCall
    /\ openBodies = 0

\* log.Fatalf: the process exits with status 1 on the spot.
FatalMutantLogAndRetry(e) ==
    /\ verdict' = verdict
    /\ pc' = pc
    /\ err' = e

Fatal(e) ==
    /\ verdict' = "Failed"
    /\ pc' = "exit"
    /\ err' = e

\* ----------------------------------------------------------------- main
\* main, lines 216-230: CreateVM, then Instances[0].
MainCreateVM ==
    /\ pc = "CreateVM"
    /\ \E resp \in Responses(InstanceLists, <<>>) :
        LET e == CreateVM(resp) IN
        /\ trace' = Logged(ClientOp("createInstance", 0))
        /\ lastCall' = Called("createInstance", resp, e)
        /\ fault' = Charged("createInstance", ReportedFailure(resp))
        /\ allOk' = (allOk /\ WellFormedSuccess(resp))
        /\ IF e # NoErr THEN Fatal(e) /\ vm' = vm
           ELSE IF Len(resp.data) = 0 THEN Fatal(Err("No instances created")) /\ vm' = vm
           ELSE /\ vm' = resp.data[1]
                /\ pc' = "WaitForVMReady"
                /\ UNCHANGED <<verdict, err>>
    /\ UNCHANGED <<scripts, files, vmIP, snapshot, image, i, attempt, k, client,
                   deleteErr, lastPoll, pollsOk, failedStep, missing>>
    /\ UNCHANGED <<dialErr, lastDial>>
    /\ UNCHANGED <<nameVars, sessionVars, configVars, openBodies>>

\* One iteration of WaitForVMReady (lines 130-152), with the timeout return
\* (line 154) when it was the last, and main's log.Fatalf (line 235).
WaitForVMReady ==
    /\ pc = "WaitForVMReady"
    /\ i < VMPollCap
    /\ \E resp \in Responses(VMStates, ZeroVM) :
        LET e == VMPollErr(resp)
            ready == e = NoErr /\ IsVMReady(resp.data)
            outcome == IF e # NoErr THEN "error"
                       ELSE IF ready THEN "ready"
                       ELSE IF i + 1 = VMPollCap THEN "timeout" ELSE "retry"
        IN
        /\ trace' = LoggedRepeat(ClientOp("pollInstance", vm))
        /\ lastCall' = Called("pollInstance", resp, e)
        /\ lastPoll' = [of |-> "vm", seen |-> (e = NoErr),
                        obs |-> IF e = NoErr THEN resp.data ELSE ZeroVM,
                        status |-> "",
                        wellFormed |-> WellFormedSuccess(resp),
                        reportedFailure |-> ReportedFailure(resp),
                        outcome |-> outcome]
        /\ pollsOk' = (pollsOk /\ WellFormedSuccess(resp))
        /\ fault' = Charged("instanceReady", ReportedFailure(resp))
        /\ allOk' = (allOk /\ WellFormedSuccess(resp))
        /\ CASE outcome = "error" -> Fatal(e) /\ i' = i + 1 /\ vmIP' = vmIP
             [] outcome = "ready" ->
                    /\ vmIP' = resp.data.FloatingIP
                    /\ pc' = "GetVMDetails"
                    /\ i' = 0
                    /\ UNCHANGED <<verdict, err>>
             [] outcome = "timeout" ->
                    /\ Fatal(Err("VM did not become ready with floating IP within timeout"))
                    /\ i' = i + 1
                    /\ vmIP' = vmIP
             [] outcome = "retry" ->
                    /\ i' = i + 1
                    /\ UNCHANGED <<pc, verdict, err, vmIP>>
    /\ UNCHANGED <<scripts, files, vm, snapshot, image, attempt, k, client,
                   deleteErr, failedStep, missing>>
    /\ UNCHANGED <<dialErr, lastDial>>
    /\ UNCHANGED <<nameVars, sessionVars, configVars, openBodies>>

\* main, lines 238-243: the extra read after the wait.
MainGetVMDetails ==
    /\ pc = "GetVMDetails"
    /\ \E resp \in Responses(VMStates, ZeroVM) :
        LET e == GetVMDetails(resp) IN
        /\ trace' = Logged(ClientOp("getInstance", vm))
        /\ lastCall' = Called("getInstance", resp, e)
        /\ fault' = Charged("instanceReady", ReportedFailure(resp))
        /\ allOk' = (allOk /\ WellFormedSuccess(resp))
        /\ IF e # NoErr THEN Fatal(e)
           ELSE pc' = "sshNew" /\ UNCHANGED <<verdict, err>>
    /\ UNCHANGED <<scripts, files, vm, vmIP, snapshot, image, i, attempt, k, client,
                   deleteErr, lastPoll, pollsOk, failedStep, missing>>
    /\ UNCHANGED <<dialErr, lastDial>>
    /\ UNCHANGED <<nameVars, sessionVars, configVars, openBodies>>

\* ------------------------------------------------------------ ssh Client
\* What the remote end can do to one ExecuteCommand / CopyFile call.
CommandOutcomes == {"ok", "sessionErr", "runErr"}
CopyOutcomes == {"ok", "openErr", "statErr", "sessionErr", "scpErr"}
\* os.Stat of a local source: found, not found, or another error.
StatOutcomes == {"exists", "notexist", "othererr"}

\* The test made on os.Stat's result: os.IsNotExist(err).
LocalSourceMissingMutantWrongTest(st) == st = "othererr"

LocalSourceMissing(st) == st = "notexist"

\* Client.ExecuteCommand (lines 128-149).
ExecuteCommandMutantNoNilCheck(out) ==
    IF out = "sessionErr" THEN Err("failed to create session")
    ELSE IF out = "runErr" THEN Err("command failed")
    ELSE NoErr

ExecuteCommand(out) ==
    IF client = "nil" THEN Err("SSH connection not established")
    ELSE IF out = "sessionErr" THEN Err("failed to create session")
    ELSE IF out = "runErr" THEN Err("command failed")
    ELSE NoErr

\* Client.CopyFile (lines 83-125).
CopyFile(out) ==
    IF client = "nil" THEN Err("SSH connection not established")
    ELSE IF out = "openErr" THEN Err("failed to open local file")
    ELSE IF out = "statErr" THEN Err("failed to stat local file")
    ELSE IF out = "sessionErr" THEN Err("failed to create session")
    ELSE IF out = "scpErr" THEN Err("failed to execute SCP")
    ELSE NoErr

\* CopyFile reaches the remote host only once the local file is open.
CopyReachesRemote(out) == client # "nil" /\ out \notin {"openErr", "statErr"}

\* ------------------------------------------- executeProvisioningScripts
\* A failing return of executeScripts / deployFiles: the deferred Close runs
\* before the error reaches main.
PipelineFails(e, step) ==
    /\ err' = e
    /\ failedStep' = step
    /\ pc' = "Close"
    /\ k' = k
    /\ fault' = Charged("provisioning", TRUE)
    /\ allOk' = FALSE

\* Where the pipeline goes once script number n has run (n = 0: once the
\* scratch directory exists): the next script, else the first deployment,
\* else the removal of the scratch directory.
AfterScriptMutantSkip(n) ==
    IF n + 1 < Len(scripts) THEN <<"scriptCopy", n + 2>>
    ELSE IF Len(files) > 0 THEN <<"deployMkdir", 1>>
    ELSE <<"cleanupRm", 0>>

AfterScript(n) ==
    IF n < Len(scripts) THEN <<"scriptCopy", n + 1>>
    ELSE IF Len(files) > 0 THEN <<"deployMkdir", 1>>
    ELSE <<"cleanupRm", 0>>

AfterDeployment(n) ==
    IF n < Len(files) THEN <<"deployMkdir", n + 1>> ELSE <<"cleanupRm", 0>>

PipelineGoes(to) ==
    /\ pc' = to[1]
    /\ k' = to[2]
    /\ UNCHANGED <<err, failedStep, fault, allOk>>

\* ssh.New (lines 22-54): reads and parses the private key.
SSHNew ==
    /\ pc = "sshNew"
    /\ \E keyOk \in BOOLEAN :
        IF keyOk THEN /\ pc' = "Connect"
                      /\ UNCHANGED <<verdict, err, fault, allOk>>
        ELSE /\ Fatal(Err("failed to create SSH client"))
             /\ fault' = Charged("provisioning", TRUE)
             /\ allOk' = FALSE
    /\ UNCHANGED <<scripts, files, vm, vmIP, snapshot, image, i, attempt, k, client,
                   deleteErr, trace, lastPoll, pollsOk, failedStep, missing>>
    /\ UNCHANGED <<dialErr, lastDial, lastCall>>
    /\ UNCHANGED <<nameVars, sessionVars, configVars, openBodies>>

\* What ssh.Dial can return: a connection, or one of its errors.
DialOutcomes == {"ok", "connection refused", "handshake failed"}

\* Connect's failing return (line 71) wraps the local err, which holds what the
\* latest Dial returned; executeProvisioningScripts wraps it again (line 128).
ConnectErrorMutantDropsCause(dialError) ==
    ErrAt("failed to connect to VM", <<>>, "failed to connect after 30 attempts")

ConnectError(dialError) ==
    ErrAt("failed to connect to VM", <<dialError>>, "failed to connect after 30 attempts")

\* One iteration of Client.Connect (lines 60-69), with the failing return
\* (line 71) when it was the last; Close is deferred only after a success.
Connect ==
    /\ pc = "Connect"
    /\ attempt < ConnectCap
    /\ trace' = LoggedRepeat(Op("dial", "", <<>>, <<>>, 0, 0))
    /\ \E out \in DialOutcomes :
        /\ lastDial' = out
        /\ dialErr' = IF out = "ok" THEN "" ELSE out
        /\ IF out = "ok"
           THEN /\ client' = "open"
                /\ attempt' = 0
                /\ pc' = "mkdirScratch"
                /\ UNCHANGED <<verdict, err, fault, allOk>>
           ELSE /\ client' = "nil"
                /\ attempt' = attempt + 1
                /\ allOk' = FALSE
                /\ IF attempt + 1 = ConnectCap
                   THEN /\ Fatal(ConnectError(dialErr'))
                        /\ fault' = Charged("provisioning", TRUE)
                   ELSE UNCHANGED <<pc, verdict, err, fault>>
    /\ UNCHANGED <<scripts, files, vm, vmIP, snapshot, image, i, k, deleteErr,
                   lastPoll, pollsOk, failedStep, missing>>
    /\ UNCHANGED lastCall
    /\ UNCHANGED <<nameVars, sessionVars, configVars, openBodies>>

\* executeScripts, lines 49-51: a failed mkdir returns at once.
MkdirScratchReturnsMutantGoesOn(e) == FALSE

MkdirScratchReturns(e) == e # NoErr

\* executeScripts, lines 48-51: mkdir -p of the scratch directory.
MkdirScratch ==
    /\ pc = "mkdirScratch"
    /\ \E out \in CommandOutcomes :
        LET e == ExecuteCommand(out) IN
        /\ trace' = Logged(RunOp("mkdir -p", <<>>, remoteScriptDir, 0))
        /\ lastCall' = Ran("mkdir -p", e)
        /\ IF MkdirScratchReturns(e)
           THEN PipelineFails(ErrAt("failed to create remote script directory", <<>>, e.msg), 0)
           ELSE PipelineGoes(AfterScript(0))
    /\ UNCHANGED <<verdict, scripts, files, vm, vmIP, snapshot, image, i, attempt,
                   client, deleteErr, lastPoll, pollsOk, missing>>
    /\ UNCHANGED <<dialErr, lastDial>>
    /\ UNCHANGED <<nameVars, sessionVars, configVars, openBodies>>

\* executeScripts, lines 55-68: os.Stat of the local script, then CopyFile.
ScriptCopy ==
    /\ pc = "scriptCopy"
    /\ LET script == scripts[k]
           localPath == Join(scriptDir, <<script>>)
           remotePath == Join(remoteScriptDir, <<script>>)
       IN \E st \in StatOutcomes, out \in CopyOutcomes :
            LET e == CopyFile(out) IN
            /\ missing' = IF st = "notexist" THEN ScriptStep(k) ELSE missing
            /\ IF LocalSourceMissing(st)
               THEN /\ PipelineFails(ErrAt("local script not found", localPath, ""),
                                      ScriptStep(k))
                    /\ trace' = trace
                    /\ lastCall' = lastCall
               ELSE
                 /\ trace' = IF CopyReachesRemote(out)
                             THEN Logged(UploadOp(localPath, remotePath, ScriptStep(k)))
                             ELSE trace
                 /\ lastCall' = Ran("scp -t", e)
                 /\ IF e # NoErr
                    THEN PipelineFails(ErrAt("failed to copy script", <<script>>, e.msg),
                                       ScriptStep(k))
                    ELSE PipelineGoes(<<"scriptChmod", k>>)
    /\ UNCHANGED <<verdict, scripts, files, vm, vmIP, snapshot, image, i, attempt,
                   client, deleteErr, lastPoll, pollsOk>>
    /\ UNCHANGED <<dialErr, lastDial>>
    /\ UNCHANGED <<nameVars, sessionVars, configVars, openBodies>>

\* Client.ExecuteScript, line 154: a failed chmod returns at once.
ChmodReturnsMutantRunsAnyway(e) == FALSE

ChmodReturns(e) == e # NoErr

\* Client.ExecuteScript, lines 154-156: chmod +x of the uploaded script.
ScriptChmod ==
    /\ pc = "scriptChmod"
    /\ LET script == scripts[k]
           remotePath == Join(remoteScriptDir, <<script>>)
       IN \E out \in CommandOutcomes :
            LET e == ExecuteCommand(out) IN
            /\ trace' = Logged(RunOp("chmod +x", <<>>, remotePath, ScriptStep(k)))
            /\ lastCall' = Ran("chmod +x", e)
            /\ IF ChmodReturns(e)
               THEN PipelineFails(ErrAt("failed to execute script", <<script>>,
                                        "failed to make script executable"), ScriptStep(k))
               ELSE PipelineGoes(<<"scriptRun", k>>)
    /\ UNCHANGED <<verdict, scripts, files, vm, vmIP, snapshot, image, i, attempt,
                   client, deleteErr, lastPoll, pollsOk, missing>>
    /\ UNCHANGED <<dialErr, lastDial>>
    /\ UNCHANGED <<nameVars, sessionVars, configVars, openBodies>>

\* Client.ExecuteScript, lines 159-161: the script itself; then the loop goes on.
ScriptRun ==
    /\ pc = "scriptRun"
    /\ LET script == scripts[k]
           remotePath == Join(remoteScriptDir, <<script>>)
       IN \E out \in CommandOutcomes :
            LET e == ExecuteCommand(out) IN
            /\ trace' = Logged(RunOp("exec", <<>>, remotePath, ScriptStep(k)))
            /\ lastCall' = Ran("exec", e)
            /\ IF e # NoErr
               THEN PipelineFails(ErrAt("failed to execute script", <<script>>,
                                        "failed to execute script"), ScriptStep(k))
               ELSE PipelineGoes(AfterScript(k))
    /\ UNCHANGED <<verdict, scripts, files, vm, vmIP, snapshot, image, i, attempt,
                   client, deleteErr, lastPoll, pollsOk, missing>>
    /\ UNCHANGED <<dialErr, lastDial>>
    /\ UNCHANGED <<nameVars, sessionVars, configVars, openBodies>>

\* deployFiles, lines 86-97: os.Stat of the local file, then sudo mkdir -p of
\* the destination's directory.
DeployMkdir ==
    /\ pc = "deployMkdir"
    /\ LET deployment == files[k]
           localPath == Join(filesDir, deployment.LocalPath)
           remoteDir == Dir(deployment.RemotePath)
       IN \E st \in StatOutcomes, out \in CommandOutcomes :
            LET e == ExecuteCommand(out) IN
            /\ missing' = IF st = "notexist" THEN FileStep(k) ELSE missing
            /\ IF LocalSourceMissing(st)
               THEN /\ PipelineFails(ErrAt("local file not found", localPath, ""),
                                      FileStep(k))
                    /\ trace' = trace
                    /\ lastCall' = lastCall
               ELSE
                 /\ trace' = Logged(RunOp("sudo mkdir -p", <<>>, remoteDir, FileStep(k)))
                 /\ lastCall' = Ran("sudo mkdir -p", e)
                 /\ IF e # NoErr
                    THEN PipelineFails(ErrAt("failed to create remote directory", remoteDir,
                                             e.msg), FileStep(k))
                    ELSE PipelineGoes(<<"deployCopy", k>>)
    /\ UNCHANGED <<verdict, scripts, files, vm, vmIP, snapshot, image, i, attempt,
                   client, deleteErr, lastPoll, pollsOk>>
    /\ UNCHANGED <<dialErr, lastDial>>
    /\ UNCHANGED <<nameVars, sessionVars, configVars, openBodies>>

\* deployFiles, line 100: fmt.Sprintf("/tmp/%s", filepath.Base(deployment.LocalPath))
TempPathMutantFinalDestination(deployment) == deployment.RemotePath

TempPath(deployment) == <<"tmp", Base(deployment.LocalPath)>>

\* deployFiles, lines 100-103: CopyFile to /tmp/<base of the local path>.
DeployCopy ==
    /\ pc = "deployCopy"
    /\ LET deployment == files[k]
           localPath == Join(filesDir, deployment.LocalPath)
           tempPath == TempPath(deployment)
       IN \E out \in CopyOutcomes :
            LET e == CopyFile(out) IN
            /\ trace' = IF CopyReachesRemote(out)
                        THEN Logged(UploadOp(localPath, tempPath, FileStep(k)))
                        ELSE trace
            /\ lastCall' = Ran("scp -t", e)
            /\ IF e # NoErr
               THEN PipelineFails(ErrAt("failed to copy file", deployment.LocalPath, e.msg),
                                  FileStep(k))
               ELSE PipelineGoes(<<"deployMv", k>>)
    /\ UNCHANGED <<verdict, scripts, files, vm, vmIP, snapshot, image, i, attempt,
                   client, deleteErr, lastPoll, pollsOk, missing>>
    /\ UNCHANGED <<dialErr, lastDial>>
    /\ UNCHANGED <<nameVars, sessionVars, configVars, openBodies>>

\* deployFiles, lines 106-110: sudo mv to the destination; then the loop goes on.
DeployMv ==
    /\ pc = "deployMv"
    /\ LET deployment == files[k]
           tempPath == TempPath(deployment)
       IN \E out \in CommandOutcomes :
            LET e == ExecuteCommand(out) IN
            /\ trace' = Logged(RunOp("sudo mv", tempPath, deployment.RemotePath, FileStep(k)))
            /\ lastCall' = Ran("sudo mv", e)
            /\ IF e # NoErr
               THEN PipelineFails(ErrAt("failed to move file to", deployment.RemotePath,
                                        e.msg), FileStep(k))
               ELSE PipelineGoes(AfterDeployment(k))
    /\ UNCHANGED <<verdict, scripts, files, vm, vmIP, snapshot, image, i, attempt,
                   client, deleteErr, lastPoll, pollsOk, missing>>
    /\ UNCHANGED <<dialErr, lastDial>>
    /\ UNCHANGED <<nameVars, sessionVars, configVars, openBodies>>

\* What executeProvisioningScripts returns once the removal returned e
\* (lines 149-154): the failure is logged and nil is returned.
CleanupReturnsMutantEscalates(e) == e

CleanupReturns(e) == NoErr

\* executeProvisioningScripts, lines 148-154: rm -rf of the scratch directory.
CleanupRm ==
    /\ pc = "cleanupRm"
    /\ \E out \in CommandOutcomes :
        LET e == ExecuteCommand(out) IN
        /\ trace' = Logged(RunOp("rm -rf", <<>>, remoteScriptDir, 0))
        /\ allOk' = (allOk /\ e = NoErr)
        /\ lastCall' = Ran("rm -rf", e)
        /\ err' = CleanupReturns(e)
    /\ pc' = "Close"
    /\ UNCHANGED <<verdict, scripts, files, vm, vmIP, snapshot, image, i, attempt,
                   k, client, deleteErr, lastPoll, pollsOk, fault, failedStep, missing>>
    /\ UNCHANGED <<dialErr, lastDial>>
    /\ UNCHANGED <<nameVars, sessionVars, configVars, openBodies>>

\* What main does with executeProvisioningScripts' result (lines 247-249).
AfterProvisioning(e) == IF e # NoErr THEN "exit" ELSE "CreateSnapshot"

\* Client.Close (lines 75-80): closes the connection when there is one.
ClientCloseMutantLeavesOpen(c) == c

ClientCloseMutantNoNilCheck(c) == "closed"

ClientClose(c) == IF c # "nil" THEN "closed" ELSE c

\* The deferred sshClient.Close() (line 130; Client.Close, lines 75-80) as
\* executeProvisioningScripts returns, and main's check of what it returned.
Close ==
    /\ pc = "Close"
    /\ client' = ClientClose(client)
    /\ trace' = IF client # "nil" THEN Logged(Op("close", "", <<>>, <<>>, 0, 0)) ELSE trace
    /\ pc' = AfterProvisioning(err)
    /\ verdict' = IF AfterProvisioning(err) = "exit" THEN "Failed" ELSE verdict
    /\ UNCHANGED <<err, scripts, files, vm, vmIP, snapshot, image, i, attempt, k,
                   deleteErr, lastPoll, pollsOk, fault, allOk, failedStep, missing>>
    /\ UNCHANGED <<dialErr, lastDial, lastCall>>
    /\ UNCHANGED <<nameVars, sessionVars, configVars, openBodies>>

\* main, lines 251-258: CreateSnapshot.
MainCreateSnapshot ==
    /\ pc = "CreateSnapshot"
    /\ \E resp \in Responses(Snapshots, ZeroSnapshot) :
        LET e == CreateSnapshot(resp) IN
        /\ trace' = Logged(ClientOp("createSnapshot", vm))
        /\ lastCall' = Called("createSnapshot", resp, e)
        /\ fault' = Charged("createSnapshot", ReportedFailure(resp))
        /\ allOk' = (allOk /\ WellFormedSuccess(resp))
        /\ IF e # NoErr THEN Fatal(e) /\ snapshot' = snapshot
           ELSE /\ snapshot' = resp.data.ID
                /\ pc' = "WaitForSnapshotReady"
                /\ UNCHANGED <<verdict, err>>
    /\ pollsOk' = TRUE
    /\ UNCHANGED <<scripts, files, vm, vmIP, image, i, attempt, k, client,
                   deleteErr, lastPoll, failedStep, missing>>
    /\ UNCHANGED <<dialErr, lastDial>>
    /\ UNCHANGED <<nameVars, sessionVars, configVars, openBodies>>

\* One iteration of WaitForSnapshotReady (lines 200-219), with the timeout
\* return (line 221) when it was the last, and main's log.Fatalf (line 262).
\* WaitForSnapshotReady, line 205: defer resp.Body.Close() inside the loop.
\* A deferred call runs when the function returns, not when the iteration
\* ends: an iteration that goes round again leaves its response open on top
\* of the earlier ones, and every return closes them all.
HeldAfterPoll(held, outcome) == IF outcome = "retry" THEN held + 1 ELSE 0

WaitForSnapshotReady ==
    /\ pc = "WaitForSnapshotReady"
    /\ i < SnapshotPollCap
    /\ \E resp \in Responses(Snapshots, ZeroSnapshot) :
        LET e == SnapshotPollErr(resp)
            ready == e = NoErr /\ IsSnapshotReady(resp.data)
            outcome == IF e # NoErr THEN "error"
                       ELSE IF ready THEN "ready"
                       ELSE IF i + 1 = SnapshotPollCap THEN "timeout" ELSE "retry"
        IN
        /\ trace' = LoggedRepeat(ClientOp("pollSnapshot", snapshot))
        /\ lastCall' = Called("pollSnapshot", resp, e)
        /\ lastPoll' = [of |-> "snapshot", seen |-> (e = NoErr),
                        obs |-> ZeroVM,
                        status |-> IF resp.transport /\ resp.json THEN resp.data.Status ELSE "",
                        wellFormed |-> WellFormedSuccess(resp),
                        reportedFailure |-> ReportedFailure(resp),
                        outcome |-> outcome]
        /\ pollsOk' = (pollsOk /\ WellFormedSuccess(resp))
        /\ fault' = Charged("snapshotReady", ReportedFailure(resp))
        /\ allOk' = (allOk /\ WellFormedSuccess(resp))
        /\ CASE outcome = "error" -> Fatal(e) /\ i' = i + 1
             [] outcome = "ready" ->
                    /\ pc' = "CreateImage"
                    /\ i' = 0
                    /\ UNCHANGED <<verdict, err>>
             [] outcome = "timeout" ->
                    /\ Fatal(Err("snapshot did not become ready within timeout"))
                    /\ i' = i + 1
             [] outcome = "retry" ->
                    /\ i' = i + 1
                    /\ UNCHANGED <<pc, verdict, err>>
        /\ openBodies' = HeldAfterPoll(openBodies, outcome)
    /\ UNCHANGED <<scripts, files, vm, vmIP, snapshot, image, attempt, k, client,
                   deleteErr, failedStep, missing>>
    /\ UNCHANGED <<dialErr, lastDial>>
    /\ UNCHANGED <<nameVars, sessionVars, configVars>>

\* main, lines 265-286: CreateImageFromSnapshot.
MainCreateImage ==
    /\ pc = "CreateImage"
    /\ \E resp \in Responses(Images, ZeroImage) :
        LET e == CreateImageFromSnapshot(resp) IN
        /\ trace' = Logged(ClientOp("createImage", snapshot))
        /\ lastCall' = Called("createImage", resp, e)
        /\ fault' = Charged("createImage", ReportedFailure(resp))
        /\ allOk' = (allOk /\ WellFormedSuccess(resp))
        /\ IF e # NoErr THEN Fatal(e) /\ image' = image
           ELSE /\ image' = resp.data.ID
                /\ pc' = "DeleteVM"
                /\ UNCHANGED <<verdict, err>>
    /\ UNCHANGED <<scripts, files, vm, vmIP, snapshot, i, attempt, k, client,
                   deleteErr, lastPoll, pollsOk, failedStep, missing>>
    /\ UNCHANGED <<dialErr, lastDial>>
    /\ UNCHANGED <<nameVars, sessionVars, configVars, openBodies>>

\* The verdict main ends with after DeleteVM returned e (lines 289-295): a
\* failure is logged as a warning and main runs to its end.
VerdictAfterDeleteMutantFatal(e) == IF e # NoErr THEN "Failed" ELSE "Complete"

VerdictAfterDelete(e) == "Complete"

\* main, lines 288-295: DeleteVM, then the success messages.
MainDeleteVM ==
    /\ pc = "DeleteVM"
    /\ \E resp \in Responses({ZeroImage}, ZeroImage) :
        LET e == DeleteVM(resp) IN
        /\ trace' = Logged(ClientOp("deleteInstance", vm))
        /\ lastCall' = Called("deleteInstance", resp, e)
        /\ deleteErr' = e
        /\ allOk' = (allOk /\ resp.transport /\ resp.code \in {200, 204})
        /\ verdict' = VerdictAfterDelete(e)
    /\ pc' = "exit"
    /\ UNCHANGED <<err, scripts, files, vm, vmIP, snapshot, image, i, attempt, k,
                   client, lastPoll, pollsOk, fault, failedStep, missing>>
    /\ UNCHANGED <<dialErr, lastDial>>
    /\ UNCHANGED <<nameVars, sessionVars, configVars, openBodies>>

Next ==
    \/ MainCreateVM
    \/ WaitForVMReady
    \/ MainGetVMDetails
    \/ SSHNew
    \/ Connect
    \/ MkdirScratch
    \/ ScriptCopy
    \/ ScriptChmod
    \/ ScriptRun
    \/ DeployMkdir
    \/ DeployCopy
    \/ DeployMv
    \/ CleanupRm
    \/ Close
    \/ MainCreateSnapshot
    \/ WaitForSnapshotReady
    \/ MainCreateImage
    \/ MainDeleteVM

Spec == Init /\ [][Next]_vars

\* Every remote call eventually returns: main is never left waiting in a call
\* for ever, so whatever step it can take next is eventually taken.
LiveInit == Init /\ NSteps <= MaxLiveSteps
LiveSpec == LiveInit /\ [][Next]_vars /\ WF_vars(Next)

\* ------------------------------------------- two runs from one config file
\* Two runs of main, repeated or overlapping, started from the same config
\* file: what each sends as instance name, snapshot name, image name and
\* labels.  Only the calls that carry a name are followed; a run ends where
\* log.Fatalf would end it.
NamingInit ==
    /\ now = StartClock
    /\ loaded \in BuildSpecs
    /\ cfg = [b \in Builds |-> loaded]
    /\ originalVMName = [b \in Builds |-> <<>>]
    /\ npc = [b \in Builds |-> "instance"]
    /\ sent = [b \in Builds |-> NothingSent]
    /\ stamped = [b \in Builds |-> NotStamped]
    /\ pc = "CreateVM" /\ verdict = "running" /\ err = NoErr
    /\ scripts = <<>> /\ files = <<>>
    /\ vm = 0 /\ vmIP = "" /\ snapshot = -1 /\ image = -1
    /\ i = 0 /\ attempt = 0 /\ k = 0
    /\ client = "nil" /\ deleteErr = NoErr /\ trace = <<>>
    /\ lastPoll = NoPoll /\ pollsOk = TRUE /\ fault = "none" /\ allOk = TRUE
    /\ failedStep = 0 /\ missing = 0
    /\ dialErr = "" /\ lastDial = "" /\ lastCall = NoCall /\ openBodies = 0
    /\ SessionIdle
    /\ ConfigIdle

\* The clock advances while a run is going on.
Tick ==
    /\ now < StartClock + MaxTicks
    /\ \E b \in Builds : npc[b] # "exit"
    /\ now' = now + 1
    /\ UNCHANGED <<loaded, cfg, originalVMName, npc, sent, stamped>>
    /\ UNCHANGED <<buildVars, sessionVars, configVars>>

\* main, lines 213-227: the name is stamped, CreateVM sends it, and after a
\* successful call the original name is put back.
NameInstance(b) ==
    /\ npc[b] = "instance"
    /\ LET original == cfg[b].VMName
           stampedName == InstanceName(cfg[b].VMName, now)
       IN /\ originalVMName' = [originalVMName EXCEPT ![b] = original]
          /\ sent' = [sent EXCEPT ![b].instance = stampedName]
          /\ stamped' = [stamped EXCEPT ![b].instance = now]
          /\ \E created \in BOOLEAN :
               IF created
               THEN /\ cfg' = [cfg EXCEPT ![b].VMName = RestoredVMName(original, stampedName)]
                    /\ npc' = [npc EXCEPT ![b] = "snapshot"]
               ELSE /\ cfg' = [cfg EXCEPT ![b].VMName = stampedName]
                    /\ npc' = [npc EXCEPT ![b] = "exit"]
    /\ UNCHANGED <<now, loaded>>
    /\ UNCHANGED <<buildVars, sessionVars, configVars>>

\* main, lines 251-256: the snapshot name, sent by CreateSnapshot.
NameSnapshot(b) ==
    /\ npc[b] = "snapshot"
    /\ sent' = [sent EXCEPT ![b].snapshot = SnapshotName(cfg[b].VMName, now)]
    /\ stamped' = [stamped EXCEPT ![b].snapshot = now]
    /\ \E created \in BOOLEAN :
         npc' = [npc EXCEPT ![b] = IF created THEN "image" ELSE "exit"]
    /\ UNCHANGED <<now, loaded, cfg, originalVMName>>
    /\ UNCHANGED <<buildVars, sessionVars, configVars>>

\* main, lines 265-284: the image name and the labels, sent by
\* CreateImageFromSnapshot (hyperstack.go 226-229).
NameImage(b) ==
    /\ npc[b] = "image"
    /\ sent' = [sent EXCEPT ![b].image = ImageName(cfg[b].ImageName, cfg[b].ImageVersion),
                            ![b].labels = ImageLabels(cfg[b].Tags)]
    /\ npc' = [npc EXCEPT ![b] = "exit"]
    /\ UNCHANGED <<now, loaded, cfg, originalVMName, stamped>>
    /\ UNCHANGED <<buildVars, sessionVars, configVars>>

NamingNext ==
    \/ Tick
    \/ \E b \in Builds : NameInstance(b)
    \/ \E b \in Builds : NameSnapshot(b)
    \/ \E b \in Builds : NameImage(b)

NamingSpec == NamingInit /\ [][NamingNext]_vars

TypeOK ==
    /\ verdict \in {"running", "Complete", "Failed"}
    /\ i \in 0..SnapshotPollCap
    /\ attempt \in 0..ConnectCap
    /\ client \in {"nil", "open", "closed"}
    /\ k \in 0..(Len(scripts) + Len(files))

\* ----------------------------------------------- a caller of the ssh Client
\* A caller that holds the Client ssh.New returned and calls Connect, Close,
\* ExecuteCommand and CopyFile in any order, at most MaxCalls times.  pc is
\* the caller's position: "caller" between calls, "connecting" inside
\* Connect, "copying" inside CopyFile, "crashed" once a goroutine panicked.
SessionInit ==
    /\ pc = "caller" /\ verdict = "running" /\ err = NoErr
    /\ scripts = <<>> /\ files = <<>>
    /\ vm = 0 /\ vmIP = "" /\ snapshot = -1 /\ image = -1
    /\ i = 0 /\ attempt = 0 /\ k = 0
    /\ client = "nil" /\ deleteErr = NoErr /\ trace = <<>>
    /\ lastPoll = NoPoll /\ pollsOk = TRUE /\ fault = "none" /\ allOk = TRUE
    /\ failedStep = 0 /\ missing = 0
    /\ dialErr = "" /\ lastDial = "" /\ lastCall = NoCall /\ openBodies = 0
    /\ SessionIdle
    /\ NamingIdle
    /\ ConfigIdle

\* What no method of the Client touches.
sessionFrame == <<verdict, scripts, files, vm, vmIP, snapshot, image, i, k, deleteErr,
                  lastPoll, pollsOk, fault, allOk, failedStep, missing, nameVars,
                  configVars, openBodies>>

SessionOp(name) == Op(name, "", <<>>, <<>>, 0, 0)
\* What the remote scp -t has to receive.
WholeFile == <<"header", "bytes", "null">>

\* The caller calls Connect (line 58: var err error).
CallConnect ==
    /\ pc = "caller" /\ calls < MaxCalls
    /\ calls' = calls + 1
    /\ pc' = "connecting"
    /\ attempt' = 0
    /\ dialErr' = ""
    /\ lastCall' = Ran("Connect", NoErr)
    /\ UNCHANGED <<err, client, trace, lastDial, connected, scp, sessionFrame>>

\* One iteration of Client.Connect (lines 60-69), with the failing return
\* (line 71) when it was the last.
SessionDial ==
    /\ pc = "connecting"
    /\ attempt < ConnectCap
    /\ trace' = LoggedRepeat(SessionOp("dial"))
    /\ \E out \in DialOutcomes :
        /\ lastDial' = out
        /\ dialErr' = IF out = "ok" THEN "" ELSE out
        /\ IF out = "ok"
           THEN /\ client' = "open"
                /\ connected' = TRUE
                /\ attempt' = 0
                /\ pc' = "caller"
                /\ err' = NoErr
                /\ lastCall' = Ran("Connect", NoErr)
           ELSE /\ client' = "nil"
                /\ connected' = connected
                /\ attempt' = attempt + 1
                /\ IF attempt + 1 = ConnectCap
                   THEN /\ pc' = "caller"
                        /\ err' = ConnectError(dialErr')
                        /\ lastCall' = Ran("Connect", ConnectError(dialErr'))
                   ELSE UNCHANGED <<pc, err, lastCall>>
    /\ UNCHANGED <<calls, scp, sessionFrame>>

\* The caller calls Close (lines 75-80).
CallClose ==
    /\ pc = "caller" /\ calls < MaxCalls
    /\ calls' = calls + 1
    /\ \E closeOk \in BOOLEAN :
        LET acted == ClientClose(client) # client \/ client = "closed"
            e == IF acted /\ (~closeOk \/ client = "closed")
                 THEN Err("close failed") ELSE NoErr
        IN /\ client' = ClientClose(client)
           /\ trace' = IF acted THEN Logged(SessionOp("close")) ELSE trace
           /\ err' = e
           /\ lastCall' = Ran("Close", e)
    /\ UNCHANGED <<pc, attempt, dialErr, lastDial, connected, scp, sessionFrame>>

\* The caller calls ExecuteCommand (lines 128-149): nil check, NewSession,
\* session.Run.
CallExecuteCommand ==
    /\ pc = "caller" /\ calls < MaxCalls
    /\ calls' = calls + 1
    /\ \E out \in (IF client = "closed" THEN {"sessionErr"} ELSE CommandOutcomes) :
        LET e == ExecuteCommand(out) IN
        /\ trace' = IF e.msg = "SSH connection not established" THEN trace
                    ELSE IF out = "sessionErr" THEN Logged(SessionOp("newSession"))
                    ELSE Logged(SessionOp("newSession")) \o <<SessionOp("exec")>>
        /\ err' = e
        /\ lastCall' = Ran("ExecuteCommand", e)
    /\ UNCHANGED <<pc, client, attempt, dialErr, lastDial, connected, scp, sessionFrame>>

\* The caller calls CopyFile (lines 83-105): nil check, os.Open, Stat,
\* NewSession, and the go statement that starts the writer.
CallCopyFile ==
    /\ pc = "caller" /\ calls < MaxCalls
    /\ scp.writer \in {"none", "done"}
    /\ calls' = calls + 1
    /\ \E out \in (IF client = "closed" THEN {"openErr", "statErr", "sessionErr"}
                   ELSE {"ok", "openErr", "statErr", "sessionErr"}) :
        LET e == CopyFile(out) IN
        /\ trace' = IF ~CopyReachesRemote(out)
                    THEN (IF client = "nil" THEN trace ELSE Logged(SessionOp("openLocal")))
                    ELSE Logged(SessionOp("openLocal")) \o <<SessionOp("newSession")>>
        /\ err' = e
        /\ lastCall' = Ran("CopyFile", e)
        /\ IF e = NoErr
           THEN /\ pc' = "copying"
                /\ scp' = [NoCopy EXCEPT !.writer = "check", !.run = "request"]
           ELSE UNCHANGED <<pc, scp>>
    /\ UNCHANGED <<client, attempt, dialErr, lastDial, connected, sessionFrame>>

\* The writer goroutine, line 108: session.StdinPipe() tests the Session's
\* started member; after Start it returns a nil writer and an error, which is
\* dropped, and the deferred w.Close() (line 109) panics.
WriterStdinPipeCheck ==
    /\ pc # "crashed" /\ scp.writer = "check"
    /\ IF scp.started
       THEN /\ scp' = [scp EXCEPT !.writer = "panicked", !.panicked = TRUE]
            /\ pc' = "crashed"
       ELSE /\ scp' = [scp EXCEPT !.writer = "set"]
            /\ pc' = pc
    /\ UNCHANGED <<err, client, attempt, dialErr, lastDial, trace, lastCall, calls,
                   connected, sessionFrame>>

\* session.StdinPipe() sets the Session's stdinpipe member and returns.
WriterStdinPipeSet ==
    /\ pc # "crashed" /\ scp.writer = "set"
    /\ scp' = [scp EXCEPT !.writer = "header", !.stdinpipe = TRUE]
    /\ UNCHANGED <<pc, err, client, attempt, dialErr, lastDial, trace, lastCall, calls,
                   connected, sessionFrame>>

\* The writer's three writes (lines 111-113) and its deferred w.Close(): a
\* write after the channel's write side was closed is lost, its error dropped.
WriterWrite ==
    /\ pc # "crashed" /\ scp.writer \in {"header", "bytes", "null"}
    /\ scp' = [scp EXCEPT
                  !.received = IF scp.eof THEN @ ELSE Append(@, scp.writer),
                  !.writer = CASE scp.writer = "header" -> "bytes"
                               [] scp.writer = "bytes" -> "null"
                               [] OTHER -> "close"]
    /\ UNCHANGED <<pc, err, client, attempt, dialErr, lastDial, trace, lastCall, calls,
                   connected, sessionFrame>>

WriterClose ==
    /\ pc # "crashed" /\ scp.writer = "close"
    /\ scp' = [scp EXCEPT !.writer = "done", !.eof = TRUE]
    /\ UNCHANGED <<pc, err, client, attempt, dialErr, lastDial, trace, lastCall, calls,
                   connected, sessionFrame>>

\* session.Run (line 118), first half of Start: the exec request and its reply.
RunRequest ==
    /\ pc = "copying" /\ scp.run = "request"
    /\ trace' = Logged(SessionOp("exec"))
    /\ \E accepted \in BOOLEAN :
        IF accepted
        THEN /\ scp' = [scp EXCEPT !.run = "start"]
             /\ UNCHANGED <<pc, err, lastCall>>
        ELSE /\ scp' = [scp EXCEPT !.run = "returned", !.eof = TRUE]
             /\ pc' = "caller"
             /\ err' = Err("failed to execute SCP")
             /\ lastCall' = Ran("CopyFile", Err("failed to execute SCP"))
    /\ UNCHANGED <<client, attempt, dialErr, lastDial, calls, connected, sessionFrame>>

\* Second half of Start: started is set and standard input is set up; when no
\* pipe was asked for, the input is empty and the channel's write side is
\* closed at once.
RunStart ==
    /\ pc = "copying" /\ scp.run = "start"
    /\ scp' = [scp EXCEPT !.run = "wait", !.started = TRUE,
                          !.eof = (@ \/ ~scp.stdinpipe)]
    /\ UNCHANGED <<pc, err, client, attempt, dialErr, lastDial, trace, lastCall, calls,
                   connected, sessionFrame>>

\* session.Run's Wait: scp -t exits once its input has ended, with status 0
\* only when it received the whole file; CopyFile returns (lines 118-124).
RunWait ==
    /\ pc = "copying" /\ scp.run = "wait"
    /\ scp.eof
    /\ \E remoteOk \in BOOLEAN :
        LET e == IF scp.received = WholeFile /\ remoteOk THEN NoErr
                 ELSE Err("failed to execute SCP")
        IN /\ err' = e
           /\ lastCall' = Ran("CopyFile", e)
    /\ scp' = [scp EXCEPT !.run = "returned"]
    /\ pc' = "caller"
    /\ UNCHANGED <<client, attempt, dialErr, lastDial, trace, calls, connected,
                   sessionFrame>>

SessionNext ==
    \/ CallConnect
    \/ SessionDial
    \/ CallClose
    \/ CallExecuteCommand
    \/ CallCopyFile
    \/ WriterStdinPipeCheck
    \/ WriterStdinPipeSet
    \/ WriterWrite
    \/ WriterClose
    \/ RunRequest
    \/ RunStart
    \/ RunWait

SessionSpec == SessionInit /\ [][SessionNext]_vars

\* ------------------------------------------- config.Save and config.Load
\* Load's defaults (lines 503, 506, 509).
DefaultFlavorName == "n1-A100x1"
DefaultBaseImageName == "Ubuntu Server 22.04 LTS R535 CUDA 12.2 with Docker"
DefaultTags == <<"k8s">>

\* The values tried.  VMName stands for the fields Load has no default for.
MaxTags == 1
TagNames == {"k8s", "gpu"}
TagLists == UNION {[1..n -> TagNames] : n \in 0..MaxTags}
FlavorNames == {"", DefaultFlavorName, "n3-H100x1"}
BaseImageNames == {"", DefaultBaseImageName, "Ubuntu Server 24.04 LTS"}
VMNames == {"", "thunder-build-vm"}

\* Every types.Config a caller can hand to Save.
Configs ==
    [FlavorName : FlavorNames, BaseImageName : BaseImageNames, VMName : VMNames,
     Tags : {NilSlice} \cup {Slice(t) : t \in TagLists}]

Null == Member("null", <<>>)
Number == Member("number", <<>>)
StringMembers(values) == {NoMember, Null, Number} \cup {Member("string", v) : v \in values}
ArrayMembers == {NoMember, Null, Member("string", "k8s")}
                    \cup {Member("array", t) : t \in TagLists}

\* Every config file tried: written by Save or by hand.
ConfigFiles ==
    {NoFile} \cup
    [exists : {TRUE}, FlavorName : StringMembers(FlavorNames),
     BaseImageName : StringMembers(BaseImageNames), VMName : StringMembers(VMNames),
     Tags : ArrayMembers]

\* json.MarshalIndent of a types.Config (line 481): no field has omitempty,
\* so every field is written; a nil slice is written as null.
Marshal(c) ==
    [exists |-> TRUE,
     FlavorName |-> Member("string", c.FlavorName),
     BaseImageName |-> Member("string", c.BaseImageName),
     VMName |-> Member("string", c.VMName),
     Tags |-> IF c.Tags.isNil THEN Null ELSE Member("array", c.Tags.elems)]

\* json.Unmarshal into a zero types.Config (lines 495-496): a missing or
\* null member leaves the field at its zero value, an array (even an empty
\* one) makes a non-nil slice, a member of another kind is an error.
DecodeString(m) == IF m.kind = "string" THEN m.val ELSE ""
DecodeSlice(m) == IF m.kind = "array" THEN Slice(m.val) ELSE NilSlice
Unmarshal(file) ==
    [FlavorName |-> DecodeString(file.FlavorName),
     BaseImageName |-> DecodeString(file.BaseImageName),
     VMName |-> DecodeString(file.VMName),
     Tags |-> DecodeSlice(file.Tags)]
UnmarshalError(file) ==
    IF \/ \E f \in {"FlavorName", "BaseImageName", "VMName"} :
             file[f].kind \in {"number", "array"}
       \/ file.Tags.kind \in {"number", "string"}
    THEN Err("json: cannot unmarshal")
    ELSE NoErr

\* Load's defaulting (lines 501-510), applied to the decoded Config.
LoadMutantEmptyTagsDefaulted(file) ==
    LET c == Unmarshal(file)
    IN [c EXCEPT !.FlavorName = IF @ = "" THEN DefaultFlavorName ELSE @,
                 !.BaseImageName = IF @ = "" THEN DefaultBaseImageName ELSE @,
                 !.Tags = IF Len(@.elems) = 0 THEN Slice(DefaultTags) ELSE @]

Load(file) ==
    LET c == Unmarshal(file)
    IN [c EXCEPT !.FlavorName = IF @ = "" THEN DefaultFlavorName ELSE @,
                 !.BaseImageName = IF @ = "" THEN DefaultBaseImageName ELSE @,
                 !.Tags = IF @.isNil THEN Slice(DefaultTags) ELSE @]

\* Load's error returns: os.ReadFile (lines 491-494), json.Unmarshal
\* (lines 496-498).
LoadError(file) ==
    IF ~file.exists THEN Err("no such file") ELSE UnmarshalError(file)

\* A caller of config.Save and config.Load on one config file, which may
\* have been written by hand or not exist.
ConfigInit ==
    /\ pc = "caller" /\ verdict = "running" /\ err = NoErr
    /\ scripts = <<>> /\ files = <<>>
    /\ vm = 0 /\ vmIP = "" /\ snapshot = -1 /\ image = -1
    /\ i = 0 /\ attempt = 0 /\ k = 0
    /\ client = "nil" /\ deleteErr = NoErr /\ trace = <<>>
    /\ lastPoll = NoPoll /\ pollsOk = TRUE /\ fault = "none" /\ allOk = TRUE
    /\ failedStep = 0 /\ missing = 0
    /\ dialErr = "" /\ lastDial = "" /\ lastCall = NoCall /\ openBodies = 0
    /\ SessionIdle
    /\ NamingIdle
    /\ stored \in ConfigFiles
    /\ config = ZeroConfig
    /\ saved = ZeroConfig

\* What neither Save nor Load touches.
configFrame == <<pc, verdict, scripts, files, vm, vmIP, snapshot, image, i, attempt, k,
                 client, deleteErr, trace, lastPoll, pollsOk, fault, allOk, failedStep,
                 missing, dialErr, lastDial, nameVars, sessionVars,
                 openBodies>>

\* config.Save (lines 480-487); os.WriteFile may fail and then leaves the
\* file as it was.
CallSave ==
    /\ pc = "caller"
    /\ \E c \in Configs, writeOk \in BOOLEAN :
        /\ stored' = IF writeOk THEN Marshal(c) ELSE stored
        /\ saved' = IF writeOk THEN c ELSE saved
        /\ err' = IF writeOk THEN NoErr ELSE Err("write failed")
        /\ lastCall' = Ran("Save", err')
    /\ UNCHANGED <<config, configFrame>>

\* config.Load (lines 490-513): on an error the caller gets no Config.
CallLoad ==
    /\ pc = "caller"
    /\ err' = LoadError(stored)
    /\ config' = IF err' = NoErr THEN Load(stored) ELSE ZeroConfig
    /\ lastCall' = Ran("Load", err')
    /\ UNCHANGED <<stored, saved, configFrame>>

ConfigNext ==
    \/ CallSave
    \/ CallLoad

ConfigSpec == ConfigInit /\ [][ConfigNext]_vars

\* ------------------------------------------------------- claim helpers
Ended == pc = "exit"
Issued(op) == { n \in 1..Len(trace) : trace[n].op = op }
Count(op) == Cardinality(Issued(op))

\* The stage an operation belongs to, and the stages' order.
StageNo(stage) ==
    CASE stage = "createInstance" -> 1
      [] stage = "instanceReady" -> 2
      [] stage = "provisioning" -> 3
      [] stage = "createSnapshot" -> 4
      [] stage = "snapshotReady" -> 5
      [] stage = "createImage" -> 6
      [] OTHER -> 7
StageOfOp(op) ==
    CASE op = "createInstance" -> 1
      [] op \in {"pollInstance", "getInstance"} -> 2
      [] op \in {"dial", "run", "upload", "close"} -> 3
      [] op = "createSnapshot" -> 4
      [] op = "pollSnapshot" -> 5
      [] op = "createImage" -> 6
      [] OTHER -> 7

\* C1: once createInstance has returned an instance, deleteInstance for that
\* instance is requested exactly once before the build ends, when all stages
\* succeed and also when provisioning, snapshot creation, snapshot polling or
\* image creation fails.
C1_DeleteOnceOnEveryPath ==
    (Ended /\ vm # 0 /\ (verdict = "Complete" \/ failedStep > 0 \/ Count("createSnapshot") > 0))
        => /\ Count("deleteInstance") = 1
           /\ \A n \in Issued("deleteInstance") : trace[n].id = vm

\* C2: the build is fail-fast: once a stage has failed, no operation of a
\* later stage is issued and the build ends Failed.
C2_FailFast ==
    fault # "none"
        => /\ \A n \in 1..Len(trace) : StageOfOp(trace[n].op) <= StageNo(fault)
           /\ Ended => verdict = "Failed"

\* C3: a failure of deleteInstance never changes the verdict: when image
\* creation succeeded the build ends Complete whether deleteInstance succeeds
\* or fails, and deleteInstance is issued once, not retried.
C3_DeleteFailureKeepsVerdict ==
    (Ended /\ image # -1)
        => /\ verdict = "Complete"
           /\ Count("deleteInstance") = 1

C3_Witness == Ended /\ image # -1 /\ deleteErr # NoErr /\ verdict = "Complete"

\* C4: the instance readiness wait succeeds on a poll if and only if that poll
\* observed status ACTIVE, a non-empty floating address and floating status
\* ATTACHED; on any other observed tuple the wait does not succeed on that
\* poll and polling continues until the cap.
C4_ReadyIffAllThree ==
    lastPoll.of = "vm"
        => LET all3 == /\ lastPoll.seen
                       /\ lastPoll.obs.Status = "ACTIVE"
                       /\ lastPoll.obs.FloatingIP # ""
                       /\ lastPoll.obs.FloatingIPStatus = "ATTACHED"
           IN /\ (lastPoll.outcome = "ready") <=> all3
              /\ (lastPoll.seen /\ ~all3) =>
                    \/ lastPoll.outcome = "retry" /\ pc = "WaitForVMReady" /\ i < VMPollCap
                    \/ lastPoll.outcome = "timeout" /\ i = VMPollCap

C4_Witness ==
    /\ lastPoll.of = "vm" /\ lastPoll.outcome = "retry"
    /\ lastPoll.obs.Status = "ACTIVE" /\ lastPoll.obs.FloatingIP # ""
    /\ lastPoll.obs.FloatingIPStatus = "ATTACHING"

\* What the latest poll carried satisfies its loop's readiness predicate; the
\* loop's cap.
PollSatisfies ==
    IF lastPoll.of = "vm" THEN IsVMReady(lastPoll.obs) ELSE lastPoll.status = "SUCCESS"
PollCap == IF lastPoll.of = "vm" THEN VMPollCap ELSE SnapshotPollCap

\* C5: when the readiness predicate never becomes true and no poll errors, the
\* instance loop issues exactly 60 polls and the snapshot loop exactly 120 and
\* then ends with a timeout error; when a poll satisfies the predicate the
\* loop ends, successfully, at that poll.
C5_PollCaps ==
    (lastPoll.of # "none" /\ pollsOk)
        => IF PollSatisfies THEN lastPoll.outcome = "ready"
           ELSE \/ lastPoll.outcome = "retry" /\ i < PollCap
                \/ lastPoll.outcome = "timeout" /\ i = PollCap /\ verdict = "Failed"

\* C6: in both readiness loops the first status poll that fails (transport
\* failure or provider-reported failure) ends the loop with an error and the
\* build fails; no further poll is issued.
C6_PollErrorEndsLoop ==
    lastPoll.reportedFailure
        => lastPoll.outcome = "error" /\ verdict = "Failed" /\ Ended

\* The operations issued for step s; step s issued its last operation (the
\* pipeline moves past a step only when that operation succeeded); the names
\* and paths that belong to step s.
StepOps(s) == { n \in 1..Len(trace) : trace[n].step = s }
StepCompleted(s) ==
    \E n \in StepOps(s) :
        trace[n].cmd = (IF s <= Len(scripts) THEN "exec" ELSE "sudo mv")
NamesOfStep(s) ==
    IF s <= Len(scripts)
    THEN { <<scripts[s]>>, Join(scriptDir, <<scripts[s]>>) }
    ELSE LET f == files[s - Len(scripts)]
         IN { f.LocalPath, Join(filesDir, f.LocalPath), f.RemotePath, Dir(f.RemotePath) }

C8_MissingSourceBeforeRemote ==
    missing # 0
        => /\ failedStep = missing
           /\ StepOps(missing) = {}
           /\ err.msg \in {"local script not found", "local file not found"}
           /\ err.arg = (IF missing <= Len(scripts)
                         THEN Join(scriptDir, <<scripts[missing]>>)
                         ELSE Join(filesDir, files[missing - Len(scripts)].LocalPath))

C8_Witness == Ended /\ missing > Len(scripts) /\ verdict = "Failed"

\* The operations of a build that runs to its end, for the lists in use.
ExpectedOps ==
    <<"createInstance", "pollInstance", "getInstance", "dial", "run">>
    \o [n \in 1..(3 * Len(scripts)) |-> IF n % 3 = 1 THEN "upload" ELSE "run"]
    \o [n \in 1..(3 * Len(files)) |-> IF n % 3 = 2 THEN "upload" ELSE "run"]
    \o <<"run", "close", "createSnapshot", "pollSnapshot", "createImage", "deleteInstance">>

\* C9: on a build in which every remote call succeeds the operations occur in
\* the order createInstance, readiness polls, connect, scripts, deployments,
\* close, createSnapshot, snapshot polls, createImage, deleteInstance and the
\* build ends Complete.
C9_SuccessOrder ==
    (allOk /\ Ended /\ vm # 0 /\ lastPoll.outcome # "timeout")
        => /\ verdict = "Complete"
           /\ [n \in 1..Len(trace) |-> trace[n].op] = ExpectedOps

\* C10: within one build createInstance, createSnapshot and createImage are
\* each issued at most once, after a success and after a failure alike.
C10_MutatingCallsAtMostOnce ==
    /\ Count("createInstance") <= 1
    /\ Count("createSnapshot") <= 1
    /\ Count("createImage") <= 1

C10_Witness ==
    /\ Ended /\ verdict = "Failed"
    /\ Count("createInstance") = 1 /\ Count("createSnapshot") = 1 /\ Count("createImage") = 1

\* C11: createImage is issued only after a readiness poll of the build's
\* snapshot observed status SUCCESS, and with that snapshot's identifier; a
\* snapshot whose polls ended in a timeout or an error is never used to create
\* an image.
C11_ImageOnlyFromReadySnapshot ==
    /\ \A n \in Issued("createImage") :
          /\ n > 1
          /\ trace[n - 1] = ClientOp("pollSnapshot", snapshot)
          /\ trace[n].id = snapshot
          /\ lastPoll.of = "snapshot"
          /\ lastPoll.outcome = "ready"
          /\ lastPoll.status = "SUCCESS"
    /\ (lastPoll.of = "snapshot" /\ lastPoll.outcome \in {"timeout", "error", "retry"})
          => Count("createImage") = 0

C11_Witness ==
    /\ Count("createImage") = 1
    /\ lastPoll.of = "snapshot" /\ lastPoll.status = "SUCCESS"
    /\ snapshot = 5

\* C12: every call of the resource lifecycle client returns an error whenever
\* the response envelope's success flag is false, even if the HTTP status is a
\* success status.
C12_FalseFlagIsError ==
    lastCall.flagFalse => lastCall.errored

\* C13: every call of the resource lifecycle client returns an error whenever
\* the HTTP response has a failure status; a snapshot status poll that
\* receives one ends the snapshot readiness wait with an error.
C13_HTTPFailureIsError ==
    lastCall.httpFailure
        => /\ lastCall.errored
           /\ lastCall.op = "pollSnapshot" => (lastPoll.outcome = "error" /\ verdict = "Failed")

\* C14: connect makes at most 30 attempts: the first successful attempt ends
\* it with no further attempt, a failed attempt of any cause is retried until
\* the cap, and when all 30 failed the error returned carries the error of
\* the 30th attempt.
C14_ConnectAtMost30 ==
    /\ attempt <= ConnectCap
    /\ Count("dial") <= 1
    /\ lastDial = "ok" => (pc # "Connect" /\ client # "nil")
    /\ (lastDial \notin {"", "ok"} /\ attempt < ConnectCap)
          => (pc = "Connect" /\ verdict = "running" /\ attempt > 0)
    /\ attempt = ConnectCap
          => /\ Ended /\ verdict = "Failed"
             /\ lastDial \notin {"", "ok"}
             /\ err.cause = "failed to connect after 30 attempts"
             /\ err.arg = <<lastDial>>

C14_Witness == attempt = ConnectCap /\ Ended /\ err.arg = <<"handshake failed">>

C16_NoCollidingNames ==
    \A a, b \in Builds :
        a # b
          => /\ (sent[a].instance # <<>> /\ sent[b].instance # <<>>)
                    => sent[a].instance # sent[b].instance
             /\ (sent[a].snapshot # <<>> /\ sent[b].snapshot # <<>>)
                    => sent[a].snapshot # sent[b].snapshot
             /\ (sent[a].image # <<>> /\ sent[b].image # <<>>)
                    => sent[a].image # sent[b].image

\* C17: the name sent in createInstance is humanName-<epoch seconds at build
\* start>; after the create call the BuildSpec's VM name is the original human
\* name again, so the snapshot name is humanName-snapshot-<epoch> and is never
\* built from the timestamped instance name.
C17_InstanceAndSnapshotNames ==
    \A b \in Builds :
        /\ sent[b].instance # <<>>
              => sent[b].instance = loaded.VMName \o <<"-">> \o Decimal(stamped[b].instance)
        /\ (npc[b] \in {"snapshot", "image"} \/ sent[b].snapshot # <<>>)
              => cfg[b].VMName = loaded.VMName
        /\ sent[b].snapshot # <<>>
              => /\ sent[b].snapshot =
                        loaded.VMName \o <<"-", "s", "n", "a", "p", "s", "h", "o", "t", "-">>
                                      \o Decimal(stamped[b].snapshot)
                 /\ SubSeq(sent[b].snapshot, 1, Len(sent[b].instance)) # sent[b].instance

C17_Witness ==
    \E b \in Builds :
        /\ sent[b].snapshot # <<>>
        /\ stamped[b].instance = StartClock
        /\ stamped[b].snapshot > StartClock

\* C18: the labels sent in createImage are exactly the BuildSpec tags
\* followed by the six fixed labels, the image name sent is
\* imageName_imageVersion, and the BuildSpec's tag list is left unchanged.
C18_ImageNameAndLabels ==
    \A b \in Builds :
        sent[b].image # <<>>
          => /\ Len(sent[b].labels) = Len(loaded.Tags) + 6
             /\ SubSeq(sent[b].labels, 1, Len(loaded.Tags)) = loaded.Tags
             /\ SubSeq(sent[b].labels, Len(loaded.Tags) + 1, Len(sent[b].labels)) = FixedLabels
             /\ sent[b].image = loaded.ImageName \o <<"_">> \o loaded.ImageVersion
             /\ cfg[b].Tags = loaded.Tags

C18_Witness ==
    \E b \in Builds :
        /\ sent[b].image # <<>>
        /\ Len(loaded.Tags) = 2
        /\ Len(sent[b].labels) = 8

\* C19: the removal of the remote scratch directory is attempted only after
\* every script step and every file deployment succeeded, and its failure does
\* not fail the provisioning stage: the pipeline returns success and the build
\* continues to snapshot creation.
C19_CleanupBestEffort ==
    /\ \A n \in 1..Len(trace) :
          trace[n].cmd = "rm -rf"
              => /\ failedStep = 0
                 /\ \A s \in 1..NSteps : StepCompleted(s)
                 /\ \A m \in 1..Len(trace) : trace[m].step # 0 => m < n
    /\ lastCall.op = "rm -rf"
          => /\ pc \in {"Close", "CreateSnapshot"}
             /\ verdict = "running"
             /\ err = NoErr

C19_Witness ==
    /\ pc = "CreateSnapshot"
    /\ lastCall.op = "rm -rf" /\ lastCall.errored
    /\ NSteps >= 2

\* C20: runScript issues the make-executable command and then the script; if
\* the make-executable command fails the script is never run, and the two
\* failures come back as the same error, differing only in the message it wraps.
C20_ChmodThenRun ==
    /\ \A n \in 1..Len(trace) :
          trace[n].cmd = "exec"
              => n > 1 /\ trace[n - 1] = [trace[n] EXCEPT !.cmd = "chmod +x"]
    /\ (lastCall.op = "chmod +x" /\ lastCall.errored)
          => /\ pc \in {"Close", "exit"}
             /\ failedStep = ScriptStep(k)
             /\ \A n \in StepOps(failedStep) : trace[n].cmd # "exec"
             /\ err = ErrAt("failed to execute script", <<scripts[k]>>,
                            "failed to make script executable")
    /\ (lastCall.op = "exec" /\ lastCall.errored)
          => /\ pc \in {"Close", "exit"}
             /\ failedStep = ScriptStep(k)
             /\ err = ErrAt("failed to execute script", <<scripts[k]>>,
                            "failed to execute script")

C20_Witness ==
    /\ Ended /\ lastCall.op = "chmod +x" /\ lastCall.errored
    /\ failedStep = 2

\* The operations issued for step s, in the order issued.
OpsOfStep(s) == SelectSeq(trace, LAMBDA e : e.step = s)

\* C24: each file-deployment step performs, in this order, the local source
\* check, the privileged creation of the destination's parent directory, the
\* upload to the staging path /tmp/<basename> and the privileged move to the
\* final destination; the move is issued only if the upload succeeded, the
\* upload only if the directory creation succeeded, and the upload never
\* writes the final destination.
C24_DeploymentOrder ==
    /\ \A s \in (Len(scripts) + 1)..NSteps :
          LET f == files[s - Len(scripts)]
              staging == <<"tmp", Base(f.LocalPath)>>
              expected == << RunOp("sudo mkdir -p", <<>>, Dir(f.RemotePath), s),
                             UploadOp(Join(filesDir, f.LocalPath), staging, s),
                             RunOp("sudo mv", staging, f.RemotePath, s) >>
          IN /\ Len(OpsOfStep(s)) <= 3
             /\ OpsOfStep(s) = SubSeq(expected, 1, Len(OpsOfStep(s)))
             /\ \A n \in 1..Len(OpsOfStep(s)) :
                   OpsOfStep(s)[n].op = "upload" => OpsOfStep(s)[n].dst # f.RemotePath
             /\ missing = s => OpsOfStep(s) = <<>>
    /\ (lastCall.op = "sudo mkdir -p" /\ lastCall.errored)
          => /\ pc \in {"Close", "exit"}
             /\ failedStep = FileStep(k)
             /\ Len(OpsOfStep(failedStep)) = 1
    /\ (lastCall.op = "scp -t" /\ lastCall.errored /\ failedStep > Len(scripts))
          => /\ pc \in {"Close", "exit"}
             /\ \A n \in 1..Len(OpsOfStep(failedStep)) :
                   OpsOfStep(failedStep)[n].cmd # "sudo mv"

C24_Witness ==
    /\ Len(files) = 2
    /\ Len(OpsOfStep(NSteps)) = 3
    /\ Ended

\* C25: the scratch directory creation command is issued before the first
\* step's upload, and if it fails the pipeline returns an error without
\* attempting any script step or file deployment.
C25_ScratchDirFirst ==
    /\ \A n \in 1..Len(trace) :
          trace[n].step # 0
              => \E m \in 1..(n - 1) :
                    trace[m] = RunOp("mkdir -p", <<>>, remoteScriptDir, 0)
    /\ (lastCall.op = "mkdir -p" /\ lastCall.errored)
          => /\ pc \in {"Close", "exit"}
             /\ err.msg = "failed to create remote script directory"
             /\ failedStep = 0 /\ missing = 0
             /\ \A n \in 1..Len(trace) : trace[n].step = 0 /\ trace[n].op # "upload"

C25_Witness ==
    /\ Ended /\ NSteps >= 2
    /\ lastCall.op = "mkdir -p" /\ lastCall.errored

\* C27: if createInstance returns successfully but with an empty list of
\* instances the build fails immediately: no readiness poll, no session, no
\* snapshot, no image and no deleteInstance is issued.
C27_EmptyInstanceListFails ==
    (lastCall.op = "createInstance" /\ ~lastCall.errored /\ vm = 0)
        => /\ Ended /\ verdict = "Failed"
           /\ err = Err("No instances created")
           /\ trace = <<ClientOp("createInstance", 0)>>
           /\ client = "nil" /\ snapshot = -1 /\ image = -1

C27_Witness ==
    /\ Ended /\ err.msg = "No instances created"
    /\ ~lastCall.errored

\* C28: after the instance readiness wait succeeded one extra, non-polled
\* instance read is issued; an error of that read aborts the build before any
\* remote session is opened, although the readiness predicate was satisfied.
C28_ExtraReadAborts ==
    /\ Count("getInstance") <= 1
    /\ \A n \in Issued("getInstance") :
          n > 1 /\ trace[n - 1] = ClientOp("pollInstance", vm) /\ trace[n].id = vm
    /\ Count("getInstance") = 1
          => /\ lastPoll.of \in {"vm", "snapshot"}
             /\ lastPoll.of = "vm" => lastPoll.outcome = "ready"
    /\ (lastCall.op = "getInstance"
            /\ (lastCall.errored \/ lastCall.httpFailure \/ lastCall.flagFalse))
          => /\ Ended /\ verdict = "Failed"
             /\ Count("dial") = 0 /\ client = "nil"
             /\ lastPoll.outcome = "ready"

C28_Witness ==
    /\ Ended /\ lastCall.op = "getInstance" /\ lastCall.errored
    /\ lastPoll.outcome = "ready"

\* C29: deleteInstance is never issued while the build's snapshot is pending:
\* in no state has createSnapshot been requested, the snapshot readiness wait
\* not yet ended, and deleteInstance been requested.
C29_NoDeleteWhileSnapshotPending ==
    /\ ~(Count("createSnapshot") > 0 /\ pc = "WaitForSnapshotReady"
             /\ Count("deleteInstance") > 0)
    /\ Count("deleteInstance") > 0
          => /\ lastPoll.of = "snapshot"
             /\ lastPoll.outcome = "ready"
             /\ lastPoll.status = "SUCCESS"
             /\ \A n \in Issued("deleteInstance") :
                   \A m \in Issued("createSnapshot") \cup Issued("pollSnapshot") : m < n

C29_Witness ==
    /\ Count("deleteInstance") = 1
    /\ Count("createSnapshot") = 1 /\ snapshot = 5

\* How far main has got: the place of pc in main's text, and within a loop the
\* iteration reached.
StagePos(p) ==
    CASE p = "CreateVM" -> 1
      [] p = "WaitForVMReady" -> 2
      [] p = "GetVMDetails" -> 3
      [] p = "sshNew" -> 4
      [] p = "Connect" -> 5
      [] p = "mkdirScratch" -> 6
      [] p \in {"scriptCopy", "scriptChmod", "scriptRun"} -> 7
      [] p \in {"deployMkdir", "deployCopy", "deployMv"} -> 8
      [] p = "cleanupRm" -> 9
      [] p = "Close" -> 10
      [] p = "CreateSnapshot" -> 11
      [] p = "WaitForSnapshotReady" -> 12
      [] p = "CreateImage" -> 13
      [] p = "DeleteVM" -> 14
      [] OTHER -> 15
WithinStage(p, loopCount, dialCount, step) ==
    CASE p \in {"WaitForVMReady", "WaitForSnapshotReady"} -> loopCount
      [] p = "Connect" -> dialCount
      [] p \in {"scriptCopy", "deployMkdir"} -> 3 * step
      [] p \in {"scriptChmod", "deployCopy"} -> 3 * step + 1
      [] p \in {"scriptRun", "deployMv"} -> 3 * step + 2
      [] OTHER -> 0

\* C26: assuming every remote call eventually returns, every build eventually
\* ends in Complete or Failed: the connect loop and the two readiness loops
\* run at most 30, 60 and 120 iterations, and no stage repeats or goes back
\* to an earlier stage.
C26_EveryBuildEnds ==
    /\ <>(Ended /\ verdict \in {"Complete", "Failed"})
    /\ [](attempt <= ConnectCap /\ i <= SnapshotPollCap
            /\ (pc = "WaitForVMReady" => i < VMPollCap)
            /\ (pc = "WaitForSnapshotReady" => i < SnapshotPollCap)
            /\ (pc = "Connect" => attempt < ConnectCap))
    /\ [][\/ StagePos(pc') > StagePos(pc)
          \/ /\ StagePos(pc') = StagePos(pc)
             /\ WithinStage(pc', i', attempt', k') > WithinStage(pc, i, attempt, k)]_vars

C26_Witness ==
    /\ Ended /\ verdict = "Failed"
    /\ i = SnapshotPollCap
    /\ lastPoll.outcome = "timeout"

\* C21: calling close on a session that never successfully connected (never
\* dialled, or all connect attempts failed) returns no error and performs no
\* operation on any connection.
C21_CloseWithoutConnection ==
    /\ ~connected => client = "nil"
    /\ (lastCall.op = "Close" /\ ~connected)
          => /\ ~lastCall.errored
             /\ err = NoErr
             /\ client = "nil"
             /\ Count("close") = 0

C21_Witness ==
    /\ lastCall.op = "Close" /\ ~connected
    /\ Count("dial") = 1 /\ lastDial = "handshake failed"
    /\ calls = 2

\* C22: for every interleaving of upload's writer goroutine with the start of
\* the remote copy command the remote acceptor receives the header, then the
\* file's bytes, then the null terminator; in no interleaving does the writer
\* ask for the input pipe after the command has started and so send nothing
\* or fault.
C22_WriterFeedsAcceptor ==
    /\ ~scp.panicked
    /\ scp.writer \in {"check", "set"} => ~scp.started
    /\ (scp.started /\ scp.eof) => scp.received = WholeFile

\* C30: run and upload on a session that has no established connection return
\* an error without opening a channel, reading the local file or issuing any
\* remote operation, and leave the session state unchanged.
C30_NoConnectionNoOperation ==
    [][(client = "nil" /\ calls' = calls + 1
           /\ lastCall'.op \in {"ExecuteCommand", "CopyFile"})
          => /\ lastCall'.errored
             /\ err'.msg = "SSH connection not established"
             /\ trace' = trace
             /\ client' = client
             /\ scp' = scp
             /\ pc' = "caller"]_vars

C30_Witness ==
    /\ client = "nil" /\ lastCall.op = "CopyFile" /\ lastCall.errored
    /\ err.msg = "SSH connection not established"
    /\ Count("dial") = 1 /\ Len(trace) = 1

\* ---------------------------------------------------------------- C23
\* A member of the file gives no value: it is missing, null or, for a string
\* field, the empty string.
AbsentString(m) == m.kind \in {"missing", "null"} \/ (m.kind = "string" /\ m.val = "")
AbsentList(m) == m.kind \in {"missing", "null"}
\* Every field of a Config holds a value.
AllPresent(c) ==
    /\ c.FlavorName # "" /\ c.BaseImageName # "" /\ c.VMName # ""
    /\ ~c.Tags.isNil
LoadReturned == lastCall.op = "Load" /\ ~lastCall.errored

\* C23: after a Load that returned a Config, the flavor, the base image and
\* the tag list hold their defaults exactly when the file gave no value for
\* them and the stored value otherwise, a field without a default holds what
\* the file holds, and a file that Save wrote from a Config with every field
\* present loads as that Config.
C23_DefaultsOnlyWhenAbsent ==
    LoadReturned =>
        /\ config.FlavorName = IF AbsentString(stored.FlavorName)
                                THEN "n1-A100x1" ELSE stored.FlavorName.val
        /\ config.BaseImageName =
               IF AbsentString(stored.BaseImageName)
               THEN "Ubuntu Server 22.04 LTS R535 CUDA 12.2 with Docker"
               ELSE stored.BaseImageName.val
        /\ config.Tags = IF AbsentList(stored.Tags)
                          THEN [isNil |-> FALSE, elems |-> <<"k8s">>]
                          ELSE [isNil |-> FALSE, elems |-> stored.Tags.val]
        /\ config.VMName = IF AbsentString(stored.VMName)
                            THEN "" ELSE stored.VMName.val
        /\ (AllPresent(saved) /\ stored = Marshal(saved)) => config = saved

\* A file without a flavor and with null tags, but with a base image that is
\* not the default and with a VM name, has been loaded.
C23_Witness ==
    /\ LoadReturned
    /\ stored.FlavorName.kind = "missing"
    /\ stored.Tags.kind = "null"
    /\ stored.BaseImageName = Member("string", "Ubuntu Server 24.04 LTS")
    /\ stored.VMName = Member("string", "thunder-build-vm")
    /\ config.FlavorName = "n1-A100x1"
    /\ config.Tags.elems = <<"k8s">>
    /\ config.BaseImageName = "Ubuntu Server 24.04 LTS"

\* ---------------------------------------------------------------- C31
\* C31: during the snapshot readiness wait at most one poll response is held
\* open at any time: the response of one poll is released before the next
\* poll is issued.
C31_OneResponseHeld == openBodies <= 1

====
